---- MODULE Spec2Model ----
(***************************************************************************)
(* Appointment lifecycle of the doctor-appointment backend: the route      *)
(* handlers of routes/doctor.js (patient booking, admin appointment        *)
(* endpoints, expiry sweep) and routes/userRoutes.js (patient list) over   *)
(* the Appointment collection.                                             *)
(*                                                                         *)
(* An appointment document is [user_id, doctor_id, date, time, status];    *)
(* the free-text fields symptoms and notes are carried by no query and no  *)
(* condition of the handlers and are left out of the record.               *)
(***************************************************************************)
EXTENDS Integers, FiniteSets, Sequences, TLC

\* ---------------------------------------------------------------- bounds
\* Number of appointment documents ever created (ObjectIds are never reused).
MaxAppts == 2
\* The clock (the value of new Date() in a handler) runs over 1..MaxNow.
MaxNow == 2

\* ------------------------------------------------------- request domains
\* "" stands for a field that is absent from the request body (falsy in JS).
NoVal == ""

\* The days a request may name: day 1 is stale (date < now) once the clock
\* has reached 2, day 2 once it has reached 3. 0 is the absent (falsy) date
\* of a request body.
Dates == {1, 2}
DateInputs == Dates \cup {0}

Times == {"10:00 AM"}
TimeInputs == Times \cup {NoVal}

\* Ids handed to :id routes: 1..MaxAppts are well-formed ObjectIds (stored or
\* not), 0 is a string that is no ObjectId.
ApptIds == 1..MaxAppts
IdInputs == 0..MaxAppts

Roles == {"Patient", "Doctor", "Admin"}

\* The User collection: u1 is a patient, u2 a doctor, u3 an admin.
Users == [u1 |-> "Patient", u2 |-> "Doctor", u3 |-> "Admin"]
UserIds == DOMAIN Users

\* Fees of a doctor profile; NoFee is a profile saved without fees.
NoFee == -1
Fees == {500, 800}

\* The Doctor collection at the start: profile id -> owner and fees.
Doctors == [d1 |-> [userId |-> "u2", fees |-> 500]]
DoctorIds == DOMAIN Doctors

\* The ids of the doctor profiles that are ever stored: d2 is the id given to
\* the profile that POST /doctor/details saves.
ProfileIds == DoctorIds \cup {"d2"}

\* doctor_id values of a request: a stored profile, a well-formed id of no
\* profile (d9), a string that is no ObjectId (bad), or absent.
DoctorInputs == DoctorIds \cup {"d9", "bad", NoVal}

\* user_id values of an admin booking: a stored user, a well-formed id of no
\* user (u9), or absent.
BookableUsers == {"u1"}
UserInputs == BookableUsers \cup {"u9", NoVal}

\* The verified (userId, role) pairs carried by requests.
Callers == {<<u, Users[u]>> : u \in UserIds}

\* Status strings a request body may carry.
StatusInputs == {"Pending", "Confirmed", "Completed", "Cancelled", "Rejected",
                 "Expired", "Upcoming", NoVal}

\* appts: the Appointment collection, nextId: the next fresh appointment id,
\* now: the clock, last: the answer to the last request, doctors: the Doctor
\* collection, users: the ids of the stored User documents, inflight: the
\* booking requests whose handler is between its conflict query and its save.
VARIABLES appts, nextId, now, last, doctors, users, inflight,
          sweeps, base, deleting

\* The state of the requests that run their store operations one at a time
\* next to other requests: sweeps, the sweeping handlers (mark-expired and
\* admin list) with the instant each took; base, the collection as it was
\* when the first of the sweeps under way took its instant, with that instant
\* and the latest instant taken since; deleting, the user deletion that has
\* deleted the appointments and not yet the user.
races == <<sweeps, base, deleting>>
vars == <<appts, nextId, now, last, doctors, users, inflight, sweeps, base, deleting>>

\* ------------------------------------------------------------- responses
\* The response of the last request: the endpoint, the role of the caller,
\* the HTTP status, the message, the appointment id of the body (0: none),
\* the number of the body (modifiedCount of mark-expired, earnings of the
\* doctor dashboard) and, for a sweep, its currentDate (0: no sweep ran).
ReplyAt(op, role, code, msg, id, n, at) ==
    last' = [op |-> op, role |-> role, code |-> code, msg |-> msg, id |-> id,
             n |-> n, at |-> at]

Reply(op, role, code, msg, id, n) == ReplyAt(op, role, code, msg, id, n, 0)

\* ---------------------------------------------------------------- queries
\* models/Appointment.js: the status path of the schema is an enum of the six
\* status strings; save() and updates with runValidators reject any other.
SchemaStatuses == {"Pending", "Confirmed", "Completed", "Cancelled", "Rejected", "Expired"}

\* doctor.js:312, the status filter of the patient booking's conflict query
\* (first, the filter with 'Pending' left out, and the filter with
\* 'Cancelled' added).
PatientBlockingNoPending == {"Upcoming"}
PatientBlockingWithCancelled == {"Pending", "Upcoming", "Cancelled"}
PatientBlocking == {"Pending", "Upcoming"}

\* doctor.js:747, the status filter of the admin booking's conflict query
\* (first, the filter of the patient booking in its place).
AdminBlockingAsPatient == {"Pending", "Upcoming"}
AdminBlocking == {"Pending", "Confirmed"}

\* Appointment.findOne({doctor_id, date, time, status: {$in: blocking}}) != null
SlotTaken(store, doctor_id, date, time, blocking) ==
    \E i \in DOMAIN store :
        /\ store[i].doctor_id = doctor_id
        /\ store[i].date = date
        /\ store[i].time = time
        /\ store[i].status \in blocking

\* doctor.js:283, the role check of the patient booking (first, a check that
\* lets doctors through to the self-booking test of doctor.js:300).
BookRoleAllowedDoctorToo(role) == role \in {"Patient", "Doctor"}
BookRoleAllowed(role) == role = "Patient"

\* doctor.js:647, the allow-list of the admin status update (first, a list
\* that misses 'Rejected' and one that admits 'Upcoming').
validStatusesNoRejected == {"Pending", "Confirmed", "Completed", "Cancelled", "Expired"}
validStatusesWithUpcoming == {"Pending", "Confirmed", "Completed", "Cancelled", "Rejected", "Expired", "Upcoming"}
validStatuses == {"Pending", "Confirmed", "Completed", "Cancelled", "Rejected", "Expired"}

\* doctor.js:574 and 1166, the statuses the sweep's filter excludes ($nin)
\* (first, filters that also spare 'Rejected', 'Pending' or 'Confirmed', and
\* one that does not spare 'Expired').
SweepExemptNoExpired == {"Completed", "Cancelled"}
SweepExemptWithRejected == {"Completed", "Cancelled", "Expired", "Rejected"}
SweepExemptWithPending == {"Completed", "Cancelled", "Expired", "Pending"}
SweepExemptWithConfirmed == {"Completed", "Cancelled", "Expired", "Confirmed"}
SweepExempt == {"Completed", "Cancelled", "Expired"}

\* doctor.js:576 and 1168, the status the sweep writes (first, a misspelt
\* one: updateMany would store it unvalidated).
ExpiredLowerCase == "expired"
ExpiredStatus == "Expired"

\* The filter of the sweep: date < currentDate and status not exempt (first,
\* the filter with $lte in place of $lt).
SweepMatchesInclusive(a, currentDate) ==
    a.date <= currentDate /\ a.status \notin SweepExempt

SweepMatches(a, currentDate) ==
    a.date < currentDate /\ a.status \notin SweepExempt

\* Appointment.updateMany(filter, {status: 'Expired'}): updateMany runs no
\* schema validator and sets the one path of the update. (First, an update
\* that replaces the matched document: its other paths are lost, here shown
\* on user_id.)
SweepReplacing(store, currentDate) ==
    [i \in DOMAIN store |->
        IF SweepMatches(store[i], currentDate)
        THEN [store[i] EXCEPT !.status = ExpiredStatus, !.user_id = NoVal]
        ELSE store[i]]

Sweep(store, currentDate) ==
    [i \in DOMAIN store |->
        IF SweepMatches(store[i], currentDate)
        THEN [store[i] EXCEPT !.status = ExpiredStatus]
        ELSE store[i]]

\* result.modifiedCount of the sweep.
ModifiedCount(store, currentDate) ==
    Cardinality({i \in DOMAIN store : SweepMatches(store[i], currentDate)})

\* new Appointment({...}).save(): the document gets a fresh id. (First, a
\* save that replaces the collection by the new document.)
InsertReplacing(store, id, doc) == [i \in {id} |-> doc]
Insert(store, id, doc) ==
    [i \in DOMAIN store \cup {id} |-> IF i = id THEN doc ELSE store[i]]

\* findByIdAndDelete
Remove(store, id) == [i \in DOMAIN store \ {id} |-> store[i]]

\* ------------------------------------------------------------------ state
\* The handlers of two booking requests that are served at the same time; a
\* handler holds the request it is serving between its conflict query and its
\* save (NoReq: it is serving none).
Handlers == {"h1", "h2"}
NoReq == << >>

\* A handler that is running no sweep, no sweep under way, and no user
\* deletion in progress.
NoSweep == [pc |-> "idle", op |-> "", role |-> "", at |-> 0, after |-> << >>]
NoBase == [store |-> << >>, first |-> 0, latest |-> 0]
NoDeletion == [id |-> NoVal, role |-> ""]

Init ==
    /\ appts = << >>
    /\ nextId = 1
    /\ now = 1
    /\ last = [op |-> "none", role |-> "none", code |-> 0, msg |-> "", id |-> 0,
               n |-> 0, at |-> 0]
    /\ doctors = Doctors
    /\ users = UserIds
    /\ inflight = [h \in Handlers |-> NoReq]
    /\ sweeps = [h \in Handlers |-> NoSweep]
    /\ base = NoBase
    /\ deleting = NoDeletion

\* Time passes between requests.
Tick ==
    /\ now < MaxNow
    /\ now' = now + 1
    /\ UNCHANGED <<appts, nextId, last, doctors, users, inflight, races>>

\* ---------------------------------------------------------------- actions
\* POST /doctor/book-appointment
BookAppointment(userId, userRole, doctor_id, date, time) ==
    /\ IF ~BookRoleAllowed(userRole)
       THEN /\ Reply("book", userRole, 403, "Only patients can book appointments", 0, 0)
            /\ UNCHANGED <<appts, nextId>>
       ELSE IF doctor_id = NoVal \/ date = 0 \/ time = NoVal
       THEN /\ Reply("book", userRole, 400, "Doctor ID, date, and time are required", 0, 0)
            /\ UNCHANGED <<appts, nextId>>
       ELSE IF doctor_id = "bad"
       THEN \* Doctor.findById throws a CastError, caught at the boundary
            /\ Reply("book", userRole, 500, "Failed to book appointment", 0, 0)
            /\ UNCHANGED <<appts, nextId>>
       ELSE IF doctor_id \notin DOMAIN doctors
       THEN /\ Reply("book", userRole, 404, "Doctor not found", 0, 0)
            /\ UNCHANGED <<appts, nextId>>
       ELSE IF /\ userRole = "Doctor"
               /\ \E d \in DOMAIN doctors : doctors[d].userId = userId /\ d = doctor_id
       THEN /\ Reply("book", userRole, 400, "Doctors cannot book appointments with themselves", 0, 0)
            /\ UNCHANGED <<appts, nextId>>
       ELSE IF SlotTaken(appts, doctor_id, date, time, PatientBlocking)
       THEN /\ Reply("book", userRole, 400, "This time slot is already booked", 0, 0)
            /\ UNCHANGED <<appts, nextId>>
       ELSE /\ nextId <= MaxAppts
            /\ appts' = Insert(appts, nextId,
                    [user_id |-> userId, doctor_id |-> doctor_id, date |-> date,
                     time |-> time, status |-> "Pending"])
            /\ nextId' = nextId + 1
            /\ Reply("book", userRole, 201, "Appointment booked successfully", nextId, 0)
    /\ UNCHANGED <<now, doctors, users, inflight, races>>

\* GET /admin/appointments: sweeps, then lists every appointment. (First,
\* the handler without its role check.)
AdminAppointmentsNoRoleCheck(userRole) ==
    /\ appts' = Sweep(appts, now)
    /\ ReplyAt("adminList", userRole, 200, "", 0, 0, now)
    /\ UNCHANGED <<nextId, now, doctors, users, inflight, races>>

AdminAppointments(userRole) ==
    /\ IF userRole # "Admin"
       THEN /\ Reply("adminList", userRole, 403, "Only admins can access this endpoint", 0, 0)
            /\ UNCHANGED appts
       ELSE /\ appts' = Sweep(appts, now)
            /\ ReplyAt("adminList", userRole, 200, "", 0, 0, now)
    /\ UNCHANGED <<nextId, now, doctors, users, inflight, races>>

\* PUT /admin/appointments/:id/status (first, the handler without its role
\* check).
UpdateStatusNoRoleCheck(userRole, id, status) ==
    /\ IF status \notin validStatuses
       THEN /\ Reply("updateStatus", userRole, 400, "Invalid status", 0, 0)
            /\ UNCHANGED appts
       ELSE IF id = 0 \/ status \notin SchemaStatuses
       THEN /\ Reply("updateStatus", userRole, 500, "Server error", 0, 0)
            /\ UNCHANGED appts
       ELSE IF id \notin DOMAIN appts
       THEN /\ Reply("updateStatus", userRole, 404, "Appointment not found", 0, 0)
            /\ UNCHANGED appts
       ELSE /\ Reply("updateStatus", userRole, 200, "Appointment status updated successfully", id, 0)
            /\ appts' = [appts EXCEPT ![id].status = status]
    /\ UNCHANGED <<nextId, now, doctors, users, inflight, races>>

UpdateStatus(userRole, id, status) ==
    /\ IF userRole # "Admin"
       THEN /\ Reply("updateStatus", userRole, 403, "Only admins can access this endpoint", 0, 0)
            /\ UNCHANGED appts
       ELSE IF status \notin validStatuses
       THEN /\ Reply("updateStatus", userRole, 400, "Invalid status", 0, 0)
            /\ UNCHANGED appts
       ELSE IF id = 0 \/ status \notin SchemaStatuses
       THEN \* CastError of the id, or ValidationError of runValidators
            /\ Reply("updateStatus", userRole, 500, "Server error", 0, 0)
            /\ UNCHANGED appts
       ELSE IF id \notin DOMAIN appts
       THEN /\ Reply("updateStatus", userRole, 404, "Appointment not found", 0, 0)
            /\ UNCHANGED appts
       ELSE /\ Reply("updateStatus", userRole, 200, "Appointment status updated successfully", id, 0)
            /\ appts' = [appts EXCEPT ![id].status = status]
    /\ UNCHANGED <<nextId, now, doctors, users, inflight, races>>

\* DELETE /admin/appointments/:id
DeleteAppointment(userRole, id) ==
    /\ IF userRole # "Admin"
       THEN /\ Reply("delete", userRole, 403, "Only admins can access this endpoint", 0, 0)
            /\ UNCHANGED appts
       ELSE IF id = 0
       THEN /\ Reply("delete", userRole, 500, "Server error", 0, 0)
            /\ UNCHANGED appts
       ELSE IF id \notin DOMAIN appts
       THEN /\ Reply("delete", userRole, 404, "Appointment not found", 0, 0)
            /\ UNCHANGED appts
       ELSE /\ appts' = Remove(appts, id)
            /\ Reply("delete", userRole, 200, "Appointment deleted successfully", 0, 0)
    /\ UNCHANGED <<nextId, now, doctors, users, inflight, races>>

\* status || "Confirmed" (doctor.js:762) (first, a handler that ignores the
\* status of the body).
AdminCreateStatusIgnored(status) == "Confirmed"
AdminCreateStatus(status) == IF status = NoVal THEN "Confirmed" ELSE status

\* POST /admin/appointments
CreateAppointment(userRole, user_id, doctor_id, date, time, status) ==
    /\ IF userRole # "Admin"
       THEN /\ Reply("adminCreate", userRole, 403, "Only admins can access this endpoint", 0, 0)
            /\ UNCHANGED <<appts, nextId>>
       ELSE IF user_id = NoVal \/ doctor_id = NoVal \/ date = 0 \/ time = NoVal
       THEN /\ Reply("adminCreate", userRole, 400, "User ID, Doctor ID, date, and time are required", 0, 0)
            /\ UNCHANGED <<appts, nextId>>
       ELSE IF user_id \notin users
       THEN /\ Reply("adminCreate", userRole, 404, "User not found", 0, 0)
            /\ UNCHANGED <<appts, nextId>>
       ELSE IF doctor_id = "bad"
       THEN /\ Reply("adminCreate", userRole, 500, "Server error", 0, 0)
            /\ UNCHANGED <<appts, nextId>>
       ELSE IF doctor_id \notin DOMAIN doctors
       THEN /\ Reply("adminCreate", userRole, 404, "Doctor not found", 0, 0)
            /\ UNCHANGED <<appts, nextId>>
       ELSE IF SlotTaken(appts, doctor_id, date, time, AdminBlocking)
       THEN /\ Reply("adminCreate", userRole, 400, "This time slot is already booked", 0, 0)
            /\ UNCHANGED <<appts, nextId>>
       ELSE IF AdminCreateStatus(status) \notin SchemaStatuses
       THEN \* save() rejects the document: ValidationError, caught at the boundary
            /\ Reply("adminCreate", userRole, 500, "Server error", 0, 0)
            /\ UNCHANGED <<appts, nextId>>
       ELSE /\ nextId <= MaxAppts
            /\ appts' = Insert(appts, nextId,
                    [user_id |-> user_id, doctor_id |-> doctor_id, date |-> date,
                     time |-> time, status |-> AdminCreateStatus(status)])
            /\ nextId' = nextId + 1
            /\ Reply("adminCreate", userRole, 201, "Appointment booked successfully", nextId, 0)
    /\ UNCHANGED <<now, doctors, users, inflight, races>>

\* POST /admin/mark-expired
MarkExpired(userRole) ==
    /\ IF userRole # "Admin"
       THEN /\ Reply("markExpired", userRole, 403, "Only admins can access this endpoint", 0, 0)
            /\ UNCHANGED appts
       ELSE /\ appts' = Sweep(appts, now)
            /\ ReplyAt("markExpired", userRole, 200, "appointments marked as expired", 0,
                       ModifiedCount(appts, now), now)
    /\ UNCHANGED <<nextId, now, doctors, users, inflight, races>>

\* GET /doctor/appointments: the caller's doctor profile, then a read.
DoctorAppointments(userId, userRole) ==
    /\ UNCHANGED <<appts, nextId, now, doctors, users, inflight, races>>
    /\ IF \A d \in DOMAIN doctors : doctors[d].userId # userId
       THEN Reply("doctorList", userRole, 404, "Doctor profile not found", 0, 0)
       ELSE Reply("doctorList", userRole, 200, "", 0, 0)

\* GET /user/appointments: a read of the caller's appointments. (First, the
\* handler with the sweep of the admin list in front of its read.)
PatientAppointmentsSweeping(userId, userRole) ==
    /\ UNCHANGED <<nextId, now, doctors, users, inflight, races>>
    /\ IF userRole # "Patient"
       THEN /\ Reply("patientList", userRole, 403, "Only patients can access this endpoint", 0, 0)
            /\ UNCHANGED appts
       ELSE /\ appts' = Sweep(appts, now)
            /\ Reply("patientList", userRole, 200, "", 0, 0)

PatientAppointments(userId, userRole) ==
    /\ UNCHANGED <<appts, nextId, now, doctors, users, inflight, races>>
    /\ IF userRole # "Patient"
       THEN Reply("patientList", userRole, 403, "Only patients can access this endpoint", 0, 0)
       ELSE Reply("patientList", userRole, 200, "", 0, 0)

\* Doctor.findOne({ userId }): the profiles a user owns, and the one findOne
\* returns (the requests below store at most one profile per user).
OwnProfiles(userId) == {d \in DOMAIN doctors : doctors[d].userId = userId}
ProfileOf(userId) == CHOOSE d \in OwnProfiles(userId) : TRUE

\* POST /doctor/details: no auth middleware and no role check; the profile is
\* saved for whatever userId the body names.
DoctorDetails(userId, fees) ==
    /\ UNCHANGED <<appts, nextId, now, users, inflight, races>>
    /\ IF userId = NoVal
       THEN /\ Reply("details", "none", 400, "userId is required", 0, 0)
            /\ UNCHANGED doctors
       ELSE /\ \E d \in ProfileIds \ DOMAIN doctors :
                  doctors' = [x \in DOMAIN doctors \cup {d} |->
                                 IF x = d THEN [userId |-> userId, fees |-> fees]
                                 ELSE doctors[x]]
            /\ Reply("details", "none", 201, "Doctor details saved successfully", 0, 0)

\* PUT /doctor/profile: sets the fees of the caller's profile when the body
\* carries fees (NoFee: the body carries none); the answer carries the fees.
UpdateProfile(userId, userRole, fees) ==
    /\ UNCHANGED <<appts, nextId, now, users, inflight, races>>
    /\ IF OwnProfiles(userId) = {}
       THEN /\ Reply("profile", userRole, 404, "Doctor profile not found", 0, 0)
            /\ UNCHANGED doctors
       ELSE LET d == ProfileOf(userId)
                f == IF fees = NoFee THEN doctors[d].fees ELSE fees
            IN /\ doctors' = [doctors EXCEPT ![d].fees = f]
               /\ Reply("profile", userRole, 200, "Profile updated successfully", 0, f)

\* doctor.js:153, the statuses the earnings estimate counts (first, a filter
\* that counts Pending appointments too).
EarningStatusesWithPending == {"Completed", "Done", "Approved", "Pending"}
EarningStatuses == {"Completed", "Done", "Approved"}

\* countDocuments({ doctor_id, status: { $in: [...] } })
CompletedCount(store, d) ==
    Cardinality({i \in DOMAIN store :
                    store[i].doctor_id = d /\ store[i].status \in EarningStatuses})

\* doctor.fees || 0
FeesOrZero(f) == IF f = NoFee THEN 0 ELSE f

\* GET /doctor/dashboard: earnings = completedCount * (doctor.fees || 0).
DoctorDashboard(userId, userRole) ==
    /\ UNCHANGED <<appts, nextId, now, doctors, users, inflight, races>>
    /\ IF OwnProfiles(userId) = {}
       THEN Reply("dashboard", userRole, 404, "Doctor profile not found", 0, 0)
       ELSE LET d == ProfileOf(userId)
            IN Reply("dashboard", userRole, 200, "", 0,
                     CompletedCount(appts, d) * FeesOrZero(doctors[d].fees))

\* userRoutes.js:124, the statuses the patient dashboard counts as upcoming.
UpcomingStatuses == {"Pending", "Confirmed", "Scheduled", "Booked"}

\* countDocuments({ user_id, date: { $gte: new Date() }, status: { $in: [...] } })
UpcomingCount(store, userId, currentDate) ==
    Cardinality({i \in DOMAIN store :
                    /\ store[i].user_id = userId
                    /\ store[i].date >= currentDate
                    /\ store[i].status \in UpcomingStatuses})

\* GET /user/dashboard: the caller's User document, then counts and finds.
PatientDashboard(userId, userRole) ==
    /\ UNCHANGED <<appts, nextId, now, doctors, users, inflight, races>>
    /\ IF userRole # "Patient"
       THEN Reply("patientDashboard", userRole, 403, "Only patients can access this endpoint", 0, 0)
       ELSE IF userId \notin users
       THEN Reply("patientDashboard", userRole, 404, "User not found", 0, 0)
       ELSE Reply("patientDashboard", userRole, 200, "", 0, UpcomingCount(appts, userId, now))

\* GET /admin/dashboard: counts over the User and Appointment collections;
\* the answer carries totalAppointments.
AdminDashboard(userRole) ==
    /\ UNCHANGED <<appts, nextId, now, doctors, users, inflight, races>>
    /\ IF userRole # "Admin"
       THEN Reply("adminDashboard", userRole, 403, "Only admins can access this endpoint", 0, 0)
       ELSE Reply("adminDashboard", userRole, 200, "", 0, Cardinality(DOMAIN appts))

\* Appointment.deleteMany({ user_id: id }) (first, a user deletion that leaves
\* the appointments alone).
RemoveOfUserNone(store, id) == store
RemoveOfUser(store, id) ==
    [i \in {j \in DOMAIN store : store[j].user_id # id} |-> store[i]]

\* DELETE /admin/users/:id: deletes the user's appointments, then the user.
DeleteUser(userRole, id) ==
    /\ UNCHANGED <<nextId, now, doctors, inflight, races>>
    /\ IF userRole # "Admin"
       THEN /\ Reply("deleteUser", userRole, 403, "Only admins can access this endpoint", 0, 0)
            /\ UNCHANGED <<appts, users>>
       ELSE IF id \notin users
       THEN /\ Reply("deleteUser", userRole, 404, "User not found", 0, 0)
            /\ UNCHANGED <<appts, users>>
       ELSE /\ appts' = RemoveOfUser(appts, id)
            /\ users' = users \ {id}
            /\ Reply("deleteUser", userRole, 200, "User deleted successfully", 0, 0)

\* The same handler, step by step. DeleteUserBegin: the role check, the
\* lookup of the user and the awaited Appointment.deleteMany({ user_id: id }).
DeleteUserBegin(userRole, id) ==
    /\ deleting = NoDeletion
    /\ UNCHANGED <<nextId, now, doctors, users, inflight, sweeps, base>>
    /\ IF userRole # "Admin"
       THEN /\ Reply("deleteUser", userRole, 403, "Only admins can access this endpoint", 0, 0)
            /\ UNCHANGED <<appts, deleting>>
       ELSE IF id \notin users
       THEN /\ Reply("deleteUser", userRole, 404, "User not found", 0, 0)
            /\ UNCHANGED <<appts, deleting>>
       ELSE /\ appts' = RemoveOfUser(appts, id)
            /\ deleting' = [id |-> id, role |-> userRole]
            /\ UNCHANGED last

\* DeleteUserFinish: the awaited User.findByIdAndDelete(id) and the answer.
DeleteUserFinish ==
    /\ deleting # NoDeletion
    /\ UNCHANGED <<appts, nextId, now, doctors, inflight, sweeps, base>>
    /\ users' = users \ {deleting.id}
    /\ Reply("deleteUser", deleting.role, 200, "User deleted successfully", 0, 0)
    /\ deleting' = NoDeletion

\* ------------------------------------------------- bookings served at once
\* doctor.js:283-317: the request passes the role check, the field check, the
\* doctor lookup, the self-booking test and the conflict query.
BookPasses(store, userId, userRole, doctor_id, date, time) ==
    /\ BookRoleAllowed(userRole)
    /\ doctor_id # NoVal /\ date # 0 /\ time # NoVal
    /\ doctor_id \in DOMAIN doctors
    /\ ~(userRole = "Doctor" /\ doctor_id \in OwnProfiles(userId))
    /\ ~SlotTaken(store, doctor_id, date, time, PatientBlocking)

\* The handlers that hold a request.
Busy == {h \in Handlers : inflight[h] # NoReq}

\* The first half of POST /doctor/book-appointment, up to the answer of the
\* conflict query (doctor.js:283-313). A request that is turned away is
\* answered at once; one that passes is held until its save.
BookCheck(h, userId, userRole, doctor_id, date, time) ==
    /\ inflight[h] = NoReq
    /\ IF BookPasses(appts, userId, userRole, doctor_id, date, time)
       THEN /\ nextId + Cardinality(Busy) <= MaxAppts
            /\ inflight' = [inflight EXCEPT ![h] = <<userId, userRole, doctor_id, date, time>>]
            /\ UNCHANGED <<appts, nextId, now, last, doctors, users, races>>
       ELSE BookAppointment(userId, userRole, doctor_id, date, time)

\* The second half (doctor.js:320-343): the save and the answer. The handler
\* does not look at the collection again. (First, a save that is conditional
\* on the slot still being free, as a unique index would make it.)
BookSaveIfFree(h) ==
    /\ inflight[h] # NoReq
    /\ inflight' = [inflight EXCEPT ![h] = NoReq]
    /\ LET r == inflight[h]
       IN /\ UNCHANGED <<now, doctors, users, races>>
          /\ IF SlotTaken(appts, r[3], r[4], r[5], PatientBlocking)
             THEN /\ Reply("book", r[2], 400, "This time slot is already booked", 0, 0)
                  /\ UNCHANGED <<appts, nextId>>
             ELSE /\ appts' = Insert(appts, nextId,
                         [user_id |-> r[1], doctor_id |-> r[3], date |-> r[4],
                          time |-> r[5], status |-> "Pending"])
                  /\ nextId' = nextId + 1
                  /\ Reply("book", r[2], 201, "Appointment booked successfully", nextId, 0)

BookSave(h) ==
    /\ inflight[h] # NoReq
    /\ inflight' = [inflight EXCEPT ![h] = NoReq]
    /\ LET r == inflight[h]
       IN /\ appts' = Insert(appts, nextId,
                  [user_id |-> r[1], doctor_id |-> r[3], date |-> r[4],
                   time |-> r[5], status |-> "Pending"])
          /\ nextId' = nextId + 1
          /\ Reply("book", r[2], 201, "Appointment booked successfully", nextId, 0)
          /\ UNCHANGED <<now, doctors, users, races>>

\* ------------------------------------------------------------- requests
\* The requests the clients send. A handler that answers 403 does so before
\* it reads the body, so callers it turns away send well-formed bodies only.
\* In a patient booking a defective field (absent, unknown, malformed) comes
\* with the other fields at their first value or defective too, which reaches
\* every order of the handler's checks; an admin booking carries at most one
\* defective field, and then no status.
FirstOr(valid, inputs) == {(CHOOSE v \in valid : TRUE)} \cup (inputs \ valid)

BookBodies ==
    (DoctorIds \X Dates \X Times)
    \cup (FirstOr(DoctorIds, DoctorInputs) \X FirstOr(Dates, DateInputs)
             \X FirstOr(Times, TimeInputs))

BookRequests ==
    {<<c[1], c[2], b[1], b[2], b[3]>> :
        c \in {c \in Callers : c[2] = "Patient"}, b \in BookBodies}
    \cup {<<c[1], c[2], b[1], b[2], b[3]>> :
            c \in {c \in Callers : c[2] # "Patient"}, b \in DoctorIds \X Dates \X Times}

Defects(user_id, doctor_id, date, time) ==
      (IF user_id \in UserIds THEN 0 ELSE 1)
    + (IF doctor_id \in DoctorIds THEN 0 ELSE 1)
    + (IF date \in Dates THEN 0 ELSE 1)
    + (IF time \in Times THEN 0 ELSE 1)

CreateBodies ==
    (BookableUsers \X DoctorIds \X Dates \X Times \X StatusInputs)
    \cup {b \in FirstOr(BookableUsers, UserInputs) \X FirstOr(DoctorIds, DoctorInputs)
                 \X FirstOr(Dates, DateInputs) \X FirstOr(Times, TimeInputs) \X {NoVal} :
             Defects(b[1], b[2], b[3], b[4]) <= 1}

CreateRequests ==
    {<<"Admin", b[1], b[2], b[3], b[4], b[5]>> : b \in CreateBodies}
    \cup {<<r, b[1], b[2], b[3], b[4], NoVal>> :
            r \in Roles \ {"Admin"}, b \in BookableUsers \X DoctorIds \X Dates \X Times}

UpdateRequests ==
    ({"Admin"} \X IdInputs \X StatusInputs)
    \cup ((Roles \ {"Admin"}) \X {1} \X {"Cancelled"})

DeleteRequests ==
    ({"Admin"} \X IdInputs) \cup ((Roles \ {"Admin"}) \X {1})

Next ==
    \/ Tick
    \/ \E r \in BookRequests : BookAppointment(r[1], r[2], r[3], r[4], r[5])
    \/ \E c \in Callers : AdminAppointments(c[2])
    \/ \E r \in UpdateRequests : UpdateStatus(r[1], r[2], r[3])
    \/ \E r \in DeleteRequests : DeleteAppointment(r[1], r[2])
    \/ \E r \in CreateRequests : CreateAppointment(r[1], r[2], r[3], r[4], r[5], r[6])
    \/ \E c \in Callers : MarkExpired(c[2])
    \/ \E c \in Callers : DoctorAppointments(c[1], c[2])
    \/ \E c \in Callers : PatientAppointments(c[1], c[2])

Spec == Init /\ [][Next]_vars

\* The requests the handlers serve: the caller passes the role check and the
\* body is well formed. (A request that is turned away only sets the answer;
\* see the branches of the actions.)
ServedStatuses == validStatuses \cup {NoVal}

NextServed ==
    \/ Tick
    \/ \E b \in DoctorIds \X Dates \X Times : BookAppointment("u1", "Patient", b[1], b[2], b[3])
    \/ AdminAppointments("Admin")
    \/ \E i \in ApptIds, s \in validStatuses : UpdateStatus("Admin", i, s)
    \/ \E i \in ApptIds : DeleteAppointment("Admin", i)
    \/ \E b \in BookableUsers \X DoctorIds \X Dates \X Times, s \in ServedStatuses :
           CreateAppointment("Admin", b[1], b[2], b[3], b[4], s)
    \/ MarkExpired("Admin")
    \/ DoctorAppointments("u2", "Doctor")
    \/ PatientAppointments("u1", "Patient")

\* An administrator keeps asking for the sweep (there is no scheduler in the
\* code: the sweep runs only when requested).
FairSpec == Init /\ [][NextServed]_vars /\ WF_vars(MarkExpired("Admin"))

\* ----------------------------------------------------------- admin bookings
\* Every admin booking request (also the ones that are turned away), next to
\* the appointment requests the handlers serve.
NextAdmin ==
    \/ Tick
    \/ \E b \in DoctorIds \X Dates \X Times : BookAppointment("u1", "Patient", b[1], b[2], b[3])
    \/ \E i \in ApptIds, s \in validStatuses : UpdateStatus("Admin", i, s)
    \/ \E i \in ApptIds : DeleteAppointment("Admin", i)
    \/ \E r \in CreateRequests : CreateAppointment(r[1], r[2], r[3], r[4], r[5], r[6])
    \/ MarkExpired("Admin")

AdminSpec == Init /\ [][NextAdmin]_vars

\* ---------------------------------------------------------- doctor records
\* The requests that write or read the Doctor collection, with the bookings
\* and the status updates the handlers serve. POST /doctor/details is sent
\* for the patient u1 (who thereby owns a doctor profile) or without userId.
RecordCallers == {c \in Callers : c[2] # "Admin"}
RecordStatuses == {"Completed", "Cancelled"}
DetailsRequests == {"u1", NoVal} \X {NoFee, 500}

NextProfiles ==
    \/ \E c \in RecordCallers, b \in ProfileIds \X Dates \X Times :
           BookAppointment(c[1], c[2], b[1], b[2], b[3])
    \/ \E i \in ApptIds, s \in RecordStatuses : UpdateStatus("Admin", i, s)
    \/ \E r \in DetailsRequests : DoctorDetails(r[1], r[2])
    \/ \E c \in RecordCallers, f \in Fees \cup {NoFee} : UpdateProfile(c[1], c[2], f)
    \/ \E c \in RecordCallers : DoctorDashboard(c[1], c[2])

ProfilesSpec == Init /\ [][NextProfiles]_vars

\* ------------------------------------------------------------ user records
\* The requests that remove documents, with the requests that create and
\* reclassify appointments; the admin books for the users u1 and u2.
DeleteUserRequests == {<<"Admin", "u1">>, <<"Admin", "u9">>, <<"Patient", "u1">>}

NextUsers ==
    \/ Tick
    \/ \E b \in DoctorIds \X Dates \X Times : BookAppointment("u1", "Patient", b[1], b[2], b[3])
    \/ \E i \in ApptIds : UpdateStatus("Admin", i, "Completed")
    \/ \E i \in ApptIds : DeleteAppointment("Admin", i)
    \/ \E u \in {"u1", "u2"}, b \in DoctorIds \X Dates \X Times :
           CreateAppointment("Admin", u, b[1], b[2], b[3], NoVal)
    \/ MarkExpired("Admin")
    \/ AdminAppointments("Admin")
    \/ \E r \in DeleteUserRequests : DeleteUser(r[1], r[2])

UsersSpec == Init /\ [][NextUsers]_vars

\* ----------------------------------------------------- sweeps, step by step
\* The handlers of mark-expired and of the admin list await their store
\* operations one after the other, and other requests are served in between.
\* SweepBegin: the role check and const currentDate = new Date(), up to the
\* call of updateMany. op is "markExpired" or "adminList".
SweepsUnderWay == {h \in Handlers : sweeps[h].pc = "begun"}

SweepBegin(h, op, userRole) ==
    /\ sweeps[h].pc = "idle"
    /\ UNCHANGED <<appts, nextId, now, doctors, users, inflight, deleting>>
    /\ IF userRole # "Admin"
       THEN /\ Reply(op, userRole, 403, "Only admins can access this endpoint", 0, 0)
            /\ UNCHANGED <<sweeps, base>>
       ELSE /\ sweeps' = [sweeps EXCEPT ![h] =
                    [pc |-> "begun", op |-> op, role |-> userRole, at |-> now, after |-> << >>]]
            /\ base' = IF SweepsUnderWay = {}
                       THEN [store |-> appts, first |-> now, latest |-> now]
                       ELSE [base EXCEPT !.latest = now]
            /\ UNCHANGED last

\* SweepApply: the store runs the updateMany with the handler's currentDate.
\* Mark-expired answers with modifiedCount; the admin list goes on to its
\* find. (First, a handler that sweeps with the clock's value at the time the
\* update runs, and an admin list that goes on to its find without sweeping.)
SweepApplyAtNow(h) ==
    /\ sweeps[h].pc = "begun"
    /\ UNCHANGED <<nextId, now, doctors, users, inflight, deleting>>
    /\ base' = IF SweepsUnderWay = {h} THEN NoBase ELSE base
    /\ appts' = Sweep(appts, now)
    /\ IF sweeps[h].op = "markExpired"
       THEN /\ ReplyAt("markExpired", sweeps[h].role, 200, "appointments marked as expired", 0,
                       ModifiedCount(appts, now), sweeps[h].at)
            /\ sweeps' = [sweeps EXCEPT ![h] = NoSweep]
       ELSE /\ sweeps' = [sweeps EXCEPT ![h].pc = "swept", ![h].after = appts']
            /\ UNCHANGED last

SweepApplyListSkips(h) ==
    /\ sweeps[h].pc = "begun"
    /\ UNCHANGED <<nextId, now, doctors, users, inflight, deleting>>
    /\ base' = IF SweepsUnderWay = {h} THEN NoBase ELSE base
    /\ IF sweeps[h].op = "markExpired"
       THEN /\ appts' = Sweep(appts, sweeps[h].at)
            /\ ReplyAt("markExpired", sweeps[h].role, 200, "appointments marked as expired", 0,
                       ModifiedCount(appts, sweeps[h].at), sweeps[h].at)
            /\ sweeps' = [sweeps EXCEPT ![h] = NoSweep]
       ELSE /\ appts' = appts
            /\ sweeps' = [sweeps EXCEPT ![h].pc = "swept", ![h].after = appts']
            /\ UNCHANGED last

SweepApply(h) ==
    /\ sweeps[h].pc = "begun"
    /\ UNCHANGED <<nextId, now, doctors, users, inflight, deleting>>
    /\ base' = IF SweepsUnderWay = {h} THEN NoBase ELSE base
    /\ appts' = Sweep(appts, sweeps[h].at)
    /\ IF sweeps[h].op = "markExpired"
       THEN /\ ReplyAt("markExpired", sweeps[h].role, 200, "appointments marked as expired", 0,
                       ModifiedCount(appts, sweeps[h].at), sweeps[h].at)
            /\ sweeps' = [sweeps EXCEPT ![h] = NoSweep]
       ELSE /\ sweeps' = [sweeps EXCEPT ![h].pc = "swept", ![h].after = appts']
            /\ UNCHANGED last

\* ListRead: the admin list's Appointment.find({}) and its answer.
ListRead(h) ==
    /\ sweeps[h].pc = "swept"
    /\ UNCHANGED <<appts, nextId, now, doctors, users, inflight, base, deleting>>
    /\ ReplyAt("adminList", sweeps[h].role, 200, "", 0, 0, sweeps[h].at)
    /\ sweeps' = [sweeps EXCEPT ![h] = NoSweep]

SweepOps == {"markExpired", "adminList"}
SweepSlots == DoctorIds \X Dates \X Times

\* Sweeping requests served at the same time, with the patient's bookings and
\* the admin's status updates served while no updateMany is under way.
NextSweepRace ==
    \/ Tick
    \/ /\ SweepsUnderWay = {}
       /\ \E b \in SweepSlots : BookAppointment("u1", "Patient", b[1], b[2], b[3])
    \/ /\ SweepsUnderWay = {}
       /\ \E i \in ApptIds : UpdateStatus("Admin", i, "Completed")
    \/ \E h \in Handlers, op \in SweepOps : SweepBegin(h, op, "Admin")
    \/ \E h \in Handlers : SweepApply(h)
    \/ \E h \in Handlers : ListRead(h)

SweepRaceSpec == Init /\ [][NextSweepRace]_vars

\* An admin list served step by step, with the patient's bookings and the
\* admin's status updates served at any point in between.
NextList ==
    \/ Tick
    \/ \E b \in SweepSlots : BookAppointment("u1", "Patient", b[1], b[2], b[3])
    \/ \E i \in ApptIds, s \in {"Pending", "Completed"} : UpdateStatus("Admin", i, s)
    \/ \E c \in Callers : SweepBegin("h1", "adminList", c[2])
    \/ SweepApply("h1")
    \/ ListRead("h1")

ListSpec == Init /\ [][NextList]_vars

\* ------------------------------------------------ user deletion under way
\* A user deletion served step by step, with the patient's bookings and the
\* admin's bookings for the users u1 and u2 served at any point in between.
NextDeletionRace ==
    \/ Tick
    \/ \E b \in DoctorIds \X Dates \X Times : BookAppointment("u1", "Patient", b[1], b[2], b[3])
    \/ \E u \in {"u1", "u2"}, b \in DoctorIds \X Dates \X Times :
           CreateAppointment("Admin", u, b[1], b[2], b[3], NoVal)
    \/ \E i \in ApptIds : UpdateStatus("Admin", i, "Completed")
    \/ \E r \in DeleteUserRequests : DeleteUserBegin(r[1], r[2])
    \/ DeleteUserFinish

DeletionRaceSpec == Init /\ [][NextDeletionRace]_vars

\* ---------------------------------------------------------------- readers
\* The dashboards and the own-appointment lists, called by every role, next
\* to the clock, the patient's bookings and the admin's status updates.
NextReads ==
    \/ Tick
    \/ \E b \in DoctorIds \X Dates \X Times : BookAppointment("u1", "Patient", b[1], b[2], b[3])
    \/ \E i \in ApptIds, s \in RecordStatuses : UpdateStatus("Admin", i, s)
    \/ \E c \in Callers : DoctorDashboard(c[1], c[2])
    \/ \E c \in Callers : PatientDashboard(c[1], c[2])
    \/ \E c \in Callers : AdminDashboard(c[2])
    \/ \E c \in Callers : DoctorAppointments(c[1], c[2])
    \/ \E c \in Callers : PatientAppointments(c[1], c[2])

ReadsSpec == Init /\ [][NextReads]_vars

\* ------------------------------------------------------------- references
\* The requests that write appointments or doctor profiles while appointments
\* of two patients and two doctors are stored: u1 registers a second profile,
\* the doctor u2 changes the fees of the first.
NextRefs ==
    \/ Tick
    \/ \E b \in ProfileIds \X Dates \X Times : BookAppointment("u1", "Patient", b[1], b[2], b[3])
    \/ \E u \in {"u1", "u2"}, b \in DoctorIds \X Dates \X Times :
           CreateAppointment("Admin", u, b[1], b[2], b[3], NoVal)
    \/ \E i \in ApptIds, s \in RecordStatuses : UpdateStatus("Admin", i, s)
    \/ MarkExpired("Admin")
    \/ AdminAppointments("Admin")
    \/ DoctorDetails("u1", 500)
    \/ \E f \in Fees : UpdateProfile("u2", "Doctor", f)

RefsSpec == Init /\ [][NextRefs]_vars

\* Two patient bookings served at the same time, each in two steps, next to
\* the admin's status update, deletion and sweep.
NextConcurrent ==
    \/ Tick
    \/ \E h \in Handlers, b \in DoctorIds \X Dates \X Times :
           BookCheck(h, "u1", "Patient", b[1], b[2], b[3])
    \/ \E h \in Handlers : BookSave(h)
    \/ \E i \in ApptIds : UpdateStatus("Admin", i, "Cancelled")
    \/ \E i \in ApptIds : DeleteAppointment("Admin", i)
    \/ MarkExpired("Admin")

ConcurrentSpec == Init /\ [][NextConcurrent]_vars

\* =================================================================== claims
\* The vocabulary of the specification.
SixStatuses == {"Pending", "Confirmed", "Completed", "Cancelled", "Rejected", "Expired"}
ActiveHold == {"Pending", "Confirmed"}
SweepTerminal == {"Completed", "Cancelled", "Expired"}
ConflictMsg == "This time slot is already booked"

\* The appointments stored on a slot.
OnSlot(store, doctor_id, date, time) ==
    {i \in DOMAIN store :
        store[i].doctor_id = doctor_id /\ store[i].date = date /\ store[i].time = time}

\* A well-formed booking of an existing doctor by a patient.
IsPatientBooking(r) ==
    r[2] = "Patient" /\ r[3] \in DoctorIds /\ r[4] \in Dates /\ r[5] \in Times

\* The appointment is stale: its date is strictly before now and its status is
\* none of Completed, Cancelled, Expired.
Stale(i) ==
    i \in DOMAIN appts /\ appts[i].date < now /\ appts[i].status \notin SweepTerminal

\* C1: in every reachable state each (doctor, date, time) slot holds at most
\* one appointment whose status is Pending or Confirmed.
C1_OneActivePerSlot ==
    \A i, j \in DOMAIN appts :
        ( /\ i # j
          /\ appts[i].doctor_id = appts[j].doctor_id
          /\ appts[i].date = appts[j].date
          /\ appts[i].time = appts[j].time
          /\ appts[i].status \in ActiveHold )
        => appts[j].status \notin ActiveHold

\* C2: a patient booking that directly follows a successful patient booking of
\* a slot that held no appointment before, and names the same slot, is
\* answered 400 "This time slot is already booked" and stores nothing: the
\* slot holds exactly one appointment, the first one, with status Pending.
C2_BackToBackBooking ==
    [][last'.op = "book" =>
      (\A r \in BookRequests :
           ( /\ IsPatientBooking(r)
             /\ last.op = "book" /\ last.code = 201
             /\ OnSlot(appts, r[3], r[4], r[5]) = {last.id}
             /\ BookAppointment(r[1], r[2], r[3], r[4], r[5]) )
           => /\ last'.code = 400 /\ last'.msg = ConflictMsg
              /\ appts' = appts
              /\ OnSlot(appts', r[3], r[4], r[5]) = {last.id}
              /\ appts'[last.id].status = "Pending")]_vars

\* The second of two bookings of one slot was turned away: one appointment was
\* ever created, it is Pending, and the last answer is the conflict.
C2_Witness ==
    /\ last.op = "book" /\ last.role = "Patient"
    /\ last.code = 400 /\ last.msg = ConflictMsg
    /\ nextId = 2 /\ DOMAIN appts = {1}
    /\ appts[1].status = "Pending" /\ appts[1].user_id = "u1"

\* C3: a patient booking of a slot on which an appointment with status Pending
\* or Confirmed exists is answered with the conflict error and creates no
\* appointment.
C3_ActiveHoldBlocksPatient ==
    [][last'.op = "book" =>
      (\A r \in BookRequests :
           ( /\ IsPatientBooking(r)
             /\ SlotTaken(appts, r[3], r[4], r[5], ActiveHold)
             /\ BookAppointment(r[1], r[2], r[3], r[4], r[5]) )
           => /\ last'.code = 400 /\ last'.msg = ConflictMsg
              /\ appts' = appts)]_vars

\* C4: a sweep run at instant now leaves Expired every appointment whose date
\* was strictly before now and whose status was none of Completed, Cancelled,
\* Expired, whether it runs in mark-expired or in the admin list.
C4_SweepExpiresStale ==
    [][(MarkExpired("Admin") \/ AdminAppointments("Admin"))
        => \A i \in DOMAIN appts :
              (appts[i].date < now /\ appts[i].status \notin {"Completed", "Cancelled", "Expired"})
              => (i \in DOMAIN appts' /\ appts'[i].status = "Expired")]_vars

\* A sweep has just reclassified at least one appointment.
C4_Witness ==
    /\ last.op = "markExpired" /\ last.code = 200 /\ last.n >= 1
    /\ \E i \in DOMAIN appts : appts[i].date < now /\ appts[i].status = "Expired"

C6_InvalidStatusRejected ==
    [][last'.op = "updateStatus" =>
      (\A i \in IdInputs : \A s \in StatusInputs \ SixStatuses :
           UpdateStatus("Admin", i, s)
           => /\ last'.code = 400
              /\ appts' = appts)]_vars

\* An update with a status outside the allow-list was turned away while an
\* appointment is stored.
C6_Witness ==
    /\ last.op = "updateStatus" /\ last.role = "Admin" /\ last.code = 400
    /\ appts # << >>

\* C7: an admin status update of a stored appointment to any of the six
\* values succeeds and stores that value, whatever the status was.
C7_AnyToAnyStatus ==
    [][last'.op = "updateStatus" =>
      (\A i \in DOMAIN appts : \A s \in SixStatuses :
           UpdateStatus("Admin", i, s)
           => /\ last'.code = 200
              /\ DOMAIN appts' = DOMAIN appts
              /\ appts'[i].status = s)]_vars

\* A status update has just set an appointment whose date is stale to Pending.
C7_Witness ==
    /\ last.op = "updateStatus" /\ last.code = 200
    /\ last.id \in DOMAIN appts
    /\ appts[last.id].status = "Pending" /\ appts[last.id].date < now

\* C8: the status of a stored appointment changes only in a step of the admin
\* status update or of a sweep, requested with role Admin: no request of a
\* Patient or a Doctor and no booking changes it.
C8_StatusChangesOnlyByAdmin ==
    [][\A i \in DOMAIN appts :
        (i \in DOMAIN appts' /\ appts'[i].status # appts[i].status)
        => /\ last'.role = "Admin" /\ last'.code = 200
           /\ last'.op \in {"updateStatus", "adminList", "markExpired"}]_vars

\* A patient has booked while another appointment was stored.
C8_Witness ==
    /\ last.op = "book" /\ last.role = "Patient" /\ last.code = 201
    /\ \E i \in DOMAIN appts : i # last.id

\* C9: the status of every stored appointment is one of the six values.
C9_StatusInSix ==
    \A i \in DOMAIN appts : appts[i].status \in SixStatuses

\* A Rejected and an Expired appointment are stored: statuses that only an
\* admin booking with an explicit status, a status update or a sweep write.
C9_Witness ==
    /\ \E i \in DOMAIN appts : appts[i].status = "Rejected"
    /\ \E i \in DOMAIN appts : appts[i].status = "Expired"

\* C10: a booking request of role Doctor that names the caller's own doctor
\* profile is answered 403 and creates no appointment.
C10_DoctorSelfBookingForbidden ==
    [][last'.op = "book" =>
      (\A r \in BookRequests :
           ( /\ r[2] = "Doctor"
             /\ r[3] \in DOMAIN doctors /\ doctors[r[3]].userId = r[1]
             /\ BookAppointment(r[1], r[2], r[3], r[4], r[5]) )
           => /\ last'.code = 403
              /\ appts' = appts /\ nextId' = nextId)]_vars

\* A doctor was turned away while appointments are stored.
C10_Witness ==
    /\ last.op = "book" /\ last.role = "Doctor" /\ last.code = 403
    /\ appts # << >>

\* C11: a booking whose caller owns the doctor profile it names is answered
\* 403 and creates no appointment, whatever the role of the caller.
C11_OwnProfileBookingForbidden ==
    [][last'.op = "book" =>
      (\A c \in RecordCallers : \A b \in ProfileIds \X Dates \X Times :
           ( /\ b[1] \in OwnProfiles(c[1])
             /\ BookAppointment(c[1], c[2], b[1], b[2], b[3]) )
           => /\ last'.code = 403
              /\ appts' = appts /\ nextId' = nextId)]_vars

\* The last request was a sweep that ran (mark-expired or the admin list), so
\* no write has reached the collection since.
AfterSweep == last.op \in {"markExpired", "adminList"} /\ last.code = 200

\* The appointments that have come due since the sweep of the last answer:
\* not before its instant, before now, and not Completed, Cancelled, Expired.
DueSinceSweep ==
    {i \in DOMAIN appts :
        /\ last.at <= appts[i].date /\ appts[i].date < now
        /\ appts[i].status \notin SweepTerminal}

\* C12 as claimed: a mark-expired sweep that follows a sweep with no write in
\* between reports zero modified records and modifies none.
C12_SecondSweepModifiesNone ==
    [][(AfterSweep /\ MarkExpired("Admin"))
        => (last'.n = 0 /\ appts' = appts)]_vars

\* C12, amended: such a sweep modifies exactly the appointments that have
\* come due between the instants of the two runs and reports their number;
\* it modifies none when the two runs see the same instant.
C12_SecondSweepModifiesDue ==
    [][(AfterSweep /\ MarkExpired("Admin"))
        => /\ last'.n = Cardinality(DueSinceSweep)
           /\ DOMAIN appts' = DOMAIN appts
           /\ \A i \in DOMAIN appts :
                 appts'[i] = IF i \in DueSinceSweep
                             THEN [appts[i] EXCEPT !.status = "Expired"]
                             ELSE appts[i]
           /\ (last.at = now => (last'.n = 0 /\ appts' = appts))]_vars

\* A sweep has reported zero while an appointment that an earlier sweep could
\* reclassify is stored Expired.
C12_Witness ==
    /\ last.op = "markExpired" /\ last.code = 200 /\ last.n = 0 /\ last.at = now
    /\ \E i \in DOMAIN appts : appts[i].date < now /\ appts[i].status = "Expired"

\* C13: a patient booking that is answered 201 stores exactly one new
\* appointment, Pending, of the caller with the requested doctor, date and
\* time, and leaves every other appointment, the doctors and the users as
\* they were.
C13_BookingStoresOne ==
    [][last'.op = "book" =>
      (\A c \in RecordCallers : \A b \in ProfileIds \X Dates \X Times :
           (BookAppointment(c[1], c[2], b[1], b[2], b[3]) /\ last'.code = 201)
           => /\ c[2] = "Patient"
              /\ last'.id \notin DOMAIN appts
              /\ DOMAIN appts' = DOMAIN appts \cup {last'.id}
              /\ appts'[last'.id] = [user_id |-> c[1], doctor_id |-> b[1], date |-> b[2],
                                     time |-> b[3], status |-> "Pending"]
              /\ \A i \in DOMAIN appts : appts'[i] = appts[i]
              /\ doctors' = doctors /\ users' = users)]_vars

\* A second appointment has been booked, with the doctor profile that POST
\* /doctor/details saved, while another appointment is stored.
C13_Witness ==
    /\ last.op = "book" /\ last.role = "Patient" /\ last.code = 201 /\ last.id = 2
    /\ DOMAIN appts = {1, 2}
    /\ appts[2].status = "Pending" /\ appts[2].doctor_id = "d2"
    /\ appts[1].status = "Completed"

\* A field of the booking body is absent.
FieldMissing(doctor_id, date, time) == doctor_id = NoVal \/ date = 0 \/ time = NoVal

\* C14: a patient booking that omits doctor_id, date or time is answered 400,
\* whatever its other fields are, and one with all three fields whose
\* doctor_id is the id of no doctor profile is answered 404; neither changes
\* the appointments.
C14_MissingOrUnknownRejected ==
    [][last'.op = "book" =>
      (\A r \in BookRequests :
           (r[2] = "Patient" /\ BookAppointment(r[1], r[2], r[3], r[4], r[5]))
           => /\ FieldMissing(r[3], r[4], r[5])
                 => (last'.code = 400 /\ appts' = appts /\ nextId' = nextId)
              /\ (~FieldMissing(r[3], r[4], r[5]) /\ r[3] \notin DOMAIN doctors)
                 => (last'.code = 404 /\ appts' = appts /\ nextId' = nextId))]_vars

\* The admin bookings with all four fields, a stored user and a stored doctor.
AdminBookings == BookableUsers \X DoctorIds \X Dates \X Times \X StatusInputs

\* C15: an admin booking of a slot that holds a Pending or Confirmed
\* appointment is answered with the conflict error and creates nothing,
\* whatever status it supplies; when no appointment of the slot is Pending or
\* Confirmed, an admin booking with no status or one of the six is answered
\* 201 and stores one new appointment.
C15_AdminConflict ==
    [][last'.op = "adminCreate" =>
      (\A r \in AdminBookings :
           \/ IF \E i \in OnSlot(appts, r[2], r[3], r[4]) : appts[i].status \in ActiveHold
              THEN /\ last'.code = 400 /\ last'.msg = ConflictMsg
                   /\ appts' = appts /\ nextId' = nextId
              ELSE r[5] \in SixStatuses \cup {NoVal}
                   => /\ last'.code = 201
                      /\ DOMAIN appts' = DOMAIN appts \cup {last'.id}
                      /\ last'.id \notin DOMAIN appts
                      /\ \A i \in DOMAIN appts : appts'[i] = appts[i]
           \/ ~CreateAppointment("Admin", r[1], r[2], r[3], r[4], r[5]))]_vars

\* An admin booking was turned away by the Confirmed appointment of the slot.
C15_Witness ==
    /\ last.op = "adminCreate" /\ last.code = 400 /\ last.msg = ConflictMsg
    /\ DOMAIN appts = {1} /\ appts[1].status = "Confirmed"

\* C16: an admin booking that is answered 201 stores the new appointment as
\* Confirmed when the body has no status, and with the status of the body
\* when that is one of the six, whatever the collection holds.
C16_AdminStatusStored ==
    [][last'.op = "adminCreate" =>
      (\A r \in AdminBookings :
           ( /\ r[5] \in SixStatuses \cup {NoVal}
             /\ last'.code = 201
             /\ CreateAppointment("Admin", r[1], r[2], r[3], r[4], r[5]) )
           => /\ last'.id \in DOMAIN appts' \ DOMAIN appts
              /\ appts'[last'.id].status = IF r[5] = NoVal THEN "Confirmed" ELSE r[5])]_vars

\* An admin booking has stored an appointment as Completed whose date has not
\* come yet.
C16_Witness ==
    /\ last.op = "adminCreate" /\ last.code = 201
    /\ last.id \in DOMAIN appts
    /\ appts[last.id].status = "Completed" /\ appts[last.id].date > now

\* The appointments a step removes.
Removed == DOMAIN appts \ DOMAIN appts'

\* C17 as claimed: an appointment leaves the collection only in a step of the
\* admin's appointment deletion.
C17_RemovedOnlyByAppointmentDeletion ==
    [][Removed # {}
        => (last'.op = "delete" /\ last'.role = "Admin" /\ last'.code = 200)]_vars

\* C17, amended: an appointment leaves the collection only in a step of the
\* admin's appointment deletion, which removes that one appointment, or of
\* the admin's user deletion, which removes exactly the appointments of the
\* deleted user; the appointments that stay are unchanged.
C17_RemovedOnlyByAdminDeletions ==
    [][/\ Removed # {}
          => /\ last'.role = "Admin" /\ last'.code = 200
             /\ \/ last'.op = "delete" /\ Cardinality(Removed) = 1
                \/ /\ last'.op = "deleteUser"
                   /\ \A i \in Removed : appts[i].user_id \in users \ users'
       /\ users' # users
          => /\ last'.op = "deleteUser" /\ last'.role = "Admin" /\ last'.code = 200
             /\ users' \subseteq users /\ Cardinality(users \ users') = 1
             /\ Removed = {i \in DOMAIN appts : appts[i].user_id \in users \ users'}
             /\ \A i \in DOMAIN appts' : appts'[i] = appts[i]]_vars

\* The deletion of user u1 has removed the appointment of u1 and left the
\* appointment of u2.
C17_Witness ==
    /\ last.op = "deleteUser" /\ last.code = 200
    /\ "u1" \notin users
    /\ nextId = 3 /\ Cardinality(DOMAIN appts) = 1
    /\ \A i \in DOMAIN appts : appts[i].user_id = "u2"

\* The appointments of doctor profile d that count as completed.
CompletedOf(d) ==
    {i \in DOMAIN appts :
        appts[i].doctor_id = d /\ appts[i].status \in {"Completed", "Done", "Approved"}}

\* C18: every answer of the doctor dashboard reports as earnings the number of
\* the caller's profile's appointments that are Completed, Done or Approved
\* times the fees the profile has at that moment (nothing for a profile
\* without fees); a dashboard query that directly follows the caller's fee
\* update reports the new fees times that number.
C18_EarningsAtQueryTime ==
    [][last'.op = "dashboard" =>
      (\A c \in RecordCallers :
           (DoctorDashboard(c[1], c[2]) /\ last'.code = 200)
           => \E d \in OwnProfiles(c[1]) :
                 /\ last'.n = Cardinality(CompletedOf(d))
                              * (IF doctors[d].fees = NoFee THEN 0 ELSE doctors[d].fees)
                 /\ ( /\ last.op = "profile" /\ last.code = 200
                      /\ last.role = c[2] /\ last.n \in Fees )
                    => last'.n = Cardinality(CompletedOf(d)) * last.n)]_vars

\* The dashboard reports 800 for the one Completed appointment of the doctor
\* whose fees were 500 at the start.
C18_Witness ==
    /\ last.op = "dashboard" /\ last.role = "Doctor" /\ last.code = 200 /\ last.n = 800
    /\ doctors["d1"].fees = 800
    /\ Cardinality(CompletedOf("d1")) = 1

\* C19: a request to the admin's appointment list, booking, status update,
\* deletion or mark-expired with a role other than Admin is answered 403 and
\* changes no appointment (the list runs no sweep); a patient-booking request
\* with a role other than Patient is answered 403 and creates nothing.
C19_WrongRoleForbidden ==
    [][/\ last'.role # "Admin"
          => \A role \in Roles \ {"Admin"} :
               ( /\ last'.role = role
                 /\ \/ last'.op = "adminList" /\ AdminAppointments(role)
                    \/ last'.op = "markExpired" /\ MarkExpired(role)
                    \/ last'.op = "updateStatus" /\ UpdateStatus(role, 1, "Cancelled")
                    \/ last'.op = "delete" /\ DeleteAppointment(role, 1)
                    \/ /\ last'.op = "adminCreate"
                       /\ \E b \in BookableUsers \X DoctorIds \X Dates \X Times :
                             CreateAppointment(role, b[1], b[2], b[3], b[4], NoVal) )
               => (last'.code = 403 /\ appts' = appts /\ nextId' = nextId)
       /\ (last'.role # "Patient" /\ last'.op = "book")
          => \A r \in (Roles \ {"Patient"}) \X DoctorIds \X Dates \X Times :
               BookAppointment(CHOOSE u \in UserIds : Users[u] = r[1], r[1], r[2], r[3], r[4])
               => (last'.code = 403 /\ appts' = appts /\ nextId' = nextId)]_vars

\* A caller who is no admin asked for the admin list and was turned away; the
\* appointment that a sweep would reclassify is still Pending.
C19_Witness ==
    /\ last.op = "adminList" /\ last.role # "Admin" /\ last.code = 403
    /\ \E i \in DOMAIN appts : appts[i].date < now /\ appts[i].status = "Pending"

\* The Pending appointments of a slot.
PendingOnSlot(store, doctor_id, date, time) ==
    {i \in OnSlot(store, doctor_id, date, time) : store[i].status = "Pending"}

\* C20: the save of a booking that has passed the conflict query is answered
\* 201 and stores a Pending appointment whatever has been saved since the
\* query; when the other request has stored its Pending appointment of the
\* same slot in between, the slot then holds two Pending appointments.
C20_CheckThenSaveRace ==
    [][\A h \in Handlers :
         (inflight[h] # NoReq /\ BookSave(h))
         => LET r == inflight[h]
            IN /\ last'.op = "book" /\ last'.code = 201
               /\ last'.id \in DOMAIN appts' \ DOMAIN appts
               /\ appts'[last'.id].status = "Pending"
               /\ \A i \in DOMAIN appts : appts'[i] = appts[i]
               /\ PendingOnSlot(appts, r[3], r[4], r[5]) # {}
                  => Cardinality(PendingOnSlot(appts', r[3], r[4], r[5])) >= 2]_vars

\* Both bookings of one slot have been answered 201: the slot holds two
\* Pending appointments and no handler holds a request.
C20_Witness ==
    /\ last.op = "book" /\ last.code = 201 /\ last.id = 2
    /\ Busy = {}
    /\ DOMAIN appts = {1, 2}
    /\ appts[1].status = "Pending" /\ appts[2].status = "Pending"
    /\ appts[1].doctor_id = appts[2].doctor_id
    /\ appts[1].date = appts[2].date /\ appts[1].time = appts[2].time

\* C23: an expiry sweep (mark-expired or the one of the admin list) creates
\* and deletes no appointment, leaves every appointment untouched whose date
\* is not strictly earlier than now or whose status is Completed, Cancelled
\* or Expired, and changes nothing but the status of the others.
C23_SweepFrame ==
    [][(/\ last'.op \in {"markExpired", "adminList"}
        /\ last'.code = 200
        /\ MarkExpired("Admin") \/ AdminAppointments("Admin"))
       => /\ DOMAIN appts' = DOMAIN appts
          /\ nextId' = nextId
          /\ \A i \in DOMAIN appts :
                IF appts[i].date >= now \/ appts[i].status \in SweepTerminal
                THEN appts'[i] = appts[i]
                ELSE appts'[i] = [appts[i] EXCEPT !.status = appts'[i].status]]_vars

\* A sweep has expired one appointment and passed over a pending one that was
\* not due.
C23_Witness ==
    /\ last.op = "markExpired"
    /\ last.code = 200
    /\ last.n = 1
    /\ \E i, j \in DOMAIN appts :
          /\ appts[i].status = "Expired"
          /\ appts[i].date < last.at
          /\ appts[j].status = "Pending"
          /\ appts[j].date >= last.at

\* The statuses that hold no slot, and the slots all of whose appointments
\* have such a status.
Released == {"Completed", "Cancelled", "Rejected", "Expired"}
SlotReleased(doctor_id, date, time) ==
    \A i \in OnSlot(appts, doctor_id, date, time) : appts[i].status \in Released

\* The step has answered 201 and stored a new appointment on the slot.
BookedOn(doctor_id, date, time) ==
    /\ last'.code = 201
    /\ DOMAIN appts' = DOMAIN appts \cup {last'.id}
    /\ last'.id \notin DOMAIN appts
    /\ appts'[last'.id].doctor_id = doctor_id
    /\ appts'[last'.id].date = date
    /\ appts'[last'.id].time = time

\* C26: when every appointment stored on a slot is Completed, Cancelled,
\* Rejected or Expired, a patient booking of the slot succeeds, and so does
\* an admin booking of it (with a status of the schema or none).
C26_ReleasedSlotBookable ==
    [][last'.op \in {"book", "adminCreate"}
       => \A b \in DoctorIds \X Dates \X Times :
            SlotReleased(b[1], b[2], b[3])
            => /\ BookAppointment("u1", "Patient", b[1], b[2], b[3])
                  => BookedOn(b[1], b[2], b[3])
               /\ \A s \in SixStatuses \cup {NoVal} :
                    CreateAppointment("Admin", "u1", b[1], b[2], b[3], s)
                    => BookedOn(b[1], b[2], b[3])]_vars

\* A patient has booked a slot whose earlier appointment was cancelled.
C26_Witness ==
    /\ last.op = "book"
    /\ last.code = 201
    /\ last.id \in DOMAIN appts
    /\ \E i \in DOMAIN appts \ {last.id} :
          /\ i \in OnSlot(appts, appts[last.id].doctor_id, appts[last.id].date,
                           appts[last.id].time)
          /\ appts[i].status = "Cancelled"

\* The slot is free: none of its appointments is Pending or Confirmed.
SlotFree(doctor_id, date, time) ==
    \A i \in OnSlot(appts, doctor_id, date, time) : appts[i].status \notin ActiveHold

\* C27: a booking of a free slot whose date is strictly earlier than now
\* succeeds, storing a Pending appointment on the patient path and a
\* Confirmed one on the admin path when no status is given; an expiry sweep
\* turns every Pending or Confirmed appointment dated before now to Expired.
C27_PastDatedBookingAccepted ==
    [][/\ last'.op \in {"book", "adminCreate"}
          => \A b \in DoctorIds \X Dates \X Times :
               (b[2] < now /\ SlotFree(b[1], b[2], b[3]))
               => /\ BookAppointment("u1", "Patient", b[1], b[2], b[3])
                     => (BookedOn(b[1], b[2], b[3])
                         /\ appts'[last'.id].status = "Pending")
                  /\ CreateAppointment("Admin", "u1", b[1], b[2], b[3], NoVal)
                     => (BookedOn(b[1], b[2], b[3])
                         /\ appts'[last'.id].status = "Confirmed")
       /\ (last'.op = "markExpired" /\ MarkExpired("Admin"))
          => \A i \in DOMAIN appts :
               (appts[i].date < now /\ appts[i].status \in ActiveHold)
               => appts'[i].status = "Expired"]_vars

\* A patient has just booked an appointment dated before now.
C27_Witness ==
    /\ last.op = "book"
    /\ last.code = 201
    /\ last.id \in DOMAIN appts
    /\ appts[last.id].date < now
    /\ appts[last.id].status = "Pending"

\* C24: no step changes the patient reference (user_id) or the doctor
\* reference (doctor_id) of an appointment that exists before and after it;
\* so an appointment keeps the two references it was created with.
C24_RefsImmutable ==
    [][\A i \in DOMAIN appts \cap DOMAIN appts' :
          /\ appts'[i].user_id = appts[i].user_id
          /\ appts'[i].doctor_id = appts[i].doctor_id]_vars

\* The admin has completed one appointment, a sweep has expired another of a
\* different patient and doctor, and the doctor has changed the fees.
C24_Witness ==
    /\ doctors["d1"].fees = 800
    /\ \E i, j \in DOMAIN appts :
          /\ appts[i].status = "Completed"
          /\ appts[i].user_id = "u1"
          /\ appts[i].doctor_id = "d2"
          /\ appts[j].status = "Expired"
          /\ appts[j].user_id = "u2"
          /\ appts[j].doctor_id = "d1"

\* The answers of the five readers.
ReaderOps == {"dashboard", "patientDashboard", "adminDashboard", "doctorList", "patientList"}

\* C25: a step that ends with the answer of the doctor, patient or admin
\* dashboard, of GET /doctor/appointments or of GET /user/appointments leaves
\* the Appointment collection as it was: nothing is created, removed, swept
\* or changed.
C25_ReadersLeaveStore ==
    [][last'.op \in ReaderOps => (appts' = appts /\ nextId' = nextId)]_vars

\* The patient's list has been served while an appointment that the sweep
\* would expire is stored.
C25_Witness ==
    /\ last.op = "patientList"
    /\ last.code = 200
    /\ \E i \in DOMAIN appts : Stale(i)

\* The appointment i of the store is stale at the instant t: its date is
\* strictly before t and its status is none of Completed, Cancelled, Expired.
StaleAt(store, i, t) ==
    store[i].date < t /\ store[i].status \notin SweepTerminal

\* The handler's sweep runs in this step; the handler's list is read in this
\* step (the list is the collection as the find sees it).
Sweeps(h) == sweeps[h].pc = "begun" /\ sweeps'[h].pc # "begun"
Lists(h) == sweeps[h].pc = "swept" /\ sweeps'[h].pc = "idle"

\* C21 as claimed: the list an admin list returns holds no appointment that
\* is stale at the request's instant, whatever other requests do between its
\* sweep and its read.
C21_ListNeverStale ==
    [][\A h \in Handlers :
          Lists(h) => \A i \in DOMAIN appts : ~StaleAt(appts, i, sweeps[h].at)]_vars

\* C21 as amended: right after the sweep of an admin list no appointment is
\* stale at the request's instant, and an appointment of the returned list
\* that is stale at that instant was booked, or had its status set, by
\* another request after that sweep; so the list holds none when no request
\* writes between the sweep and the read.
C21_ListStaleOnlyIfWrittenSince ==
    [][\A h \in Handlers :
          /\ (Sweeps(h) /\ sweeps[h].op = "adminList")
             => \A i \in DOMAIN appts' : ~StaleAt(appts', i, sweeps[h].at)
          /\ Lists(h)
             => \A i \in DOMAIN appts :
                  StaleAt(appts, i, sweeps[h].at)
                  => \/ i \notin DOMAIN sweeps[h].after
                     \/ sweeps[h].after[i].status # appts[i].status]_vars

\* An admin list has been answered whose sweep expired one appointment and
\* whose list holds another that is stale at its instant.
C21_Witness ==
    /\ last.op = "adminList"
    /\ last.code = 200
    /\ \E i, j \in DOMAIN appts :
          /\ appts[i].status = "Expired"
          /\ appts[i].date < last.at
          /\ StaleAt(appts, j, last.at)

\* The collection after one sweep at the instant t.
SingleSweep(store, t) ==
    [i \in DOMAIN store |->
        IF StaleAt(store, i, t) THEN [store[i] EXCEPT !.status = "Expired"] ELSE store[i]]

\* C22: when sweeps are under way at the same time and no other request
\* writes, then in whatever order their updates run, once the last has run
\* the collection is the one a single sweep at the latest of their instants
\* makes of the collection they started from; no sweep changes an
\* appointment that is Expired, and mark-expired counts exactly the
\* appointments it changed.
C22_SweepsRaceHarmlessly ==
    [][\A h \in Handlers :
          Sweeps(h)
          => /\ \A i \in DOMAIN appts :
                  appts[i].status = "Expired" => appts'[i] = appts[i]
             /\ sweeps[h].op = "markExpired"
                => last'.n = Cardinality({i \in DOMAIN appts : appts'[i] # appts[i]})
             /\ SweepsUnderWay = {h}
                => appts' = SingleSweep(base.store, base.latest)]_vars

\* A mark-expired that took its instant at 1 has run last, after a sweep
\* that took a later instant (only such a sweep expires an appointment dated
\* 1) and was answered before it: the two were under way together and ran
\* in the reverse order of their instants.
C22_Witness ==
    /\ last.op = "markExpired"
    /\ last.code = 200
    /\ last.at = 1
    /\ \A h \in Handlers : sweeps[h].pc = "idle"
    /\ \E i \in DOMAIN appts : appts[i].status = "Expired" /\ appts[i].date = 1

\* C28: once the deletion of a user has been answered 200, no stored
\* appointment has the deleted user as its patient, whatever booking requests
\* by or for that user were served while the deletion was under way.
C28_NoAppointmentOfDeletedUser ==
    (last.op = "deleteUser" /\ last.code = 200)
    => \A i \in DOMAIN appts : appts[i].user_id \in users

====
